---- MODULE Spec2Model ----
(***************************************************************************)
(* Job-shop scheduling script (src/main.py): task data -> valid start      *)
(* slots -> Pyomo variables and constraints -> GDP big-M transformation -> *)
(* solve -> report.  The script is modelled as a straight-line state       *)
(* machine whose program counter pc walks through the blocks of main.py.   *)
(***************************************************************************)
EXTENDS Integers, Sequences, FiniteSets, TLC

\* ------------------------------------------------------------------ bounds
MaxTasks == 2          \* longest task list drawn as input
MaxHrs == 2            \* largest duration_in_hours drawn as input
MaxDays == 2           \* largest num_days drawn as input
MaxWindowHrs == 1      \* SpecCalendar draws ticks up to MaxWindowHrs + 2 hours after opening
SampleParts == 2       \* the big-M check samples [0,UB] in this many steps

\* ------------------------------------------------------- program constants
DayMinutes == 1440
MinutesPerHour == 60
DayOpen == 480

None == "None"

\* ------------------------------------------------------------ input ranges
JobIds == {"Job1", "Job2"}
TaskIds == {"Cutting", "Milling"}
machines == <<"LaserCutter", "CNC_Mill">>
KnownMachines == {machines[i] : i \in 1..Len(machines)}
MachineNames == KnownMachines \cup {"Welder"}

\* Python orders str by code point; the rank table gives that order on the
\* identifiers drawn as input.
StrRank ==
  [s \in JobIds \cup TaskIds |->
     CASE s = "Cutting" -> 1
       [] s = "Job1" -> 2
       [] s = "Job2" -> 3
       [] s = "Milling" -> 4]

\* (j1, t1) < (j2, t2) on Python tuples of str
TupleLess(k1, k2) ==
  \/ StrRank[k1[1]] < StrRank[k2[1]]
  \/ k1[1] = k2[1] /\ StrRank[k1[2]] < StrRank[k2[2]]

\* list(range(lo, hi + 1, 60))
RECURSIVE TickRange(_, _)
TickRange(lo, hi) ==
  IF lo > hi THEN <<>> ELSE <<lo>> \o TickRange(lo + MinutesPerHour, hi)

SeqToSet(s) == {s[i] : i \in 1..Len(s)}

VARIABLES
  tasks,                       \* input: list of (job, task, machine, hrs, pred)
  calendar,                    \* input: machine -> list of daily ticks
  num_days,                    \* input: planning horizon in days
  pc,                          \* position in main.py
  error,                       \* exception that ended the run, or None
  Job_Task,                    \* insertion-ordered dict, as a list of entries
  valid_slots_by_task,         \* (job, task) -> list of slot offsets
  model_vars,                  \* Pyomo variables declared so far
  taskDurationConstraint,      \* set of (job, task)
  taskPredecessorConstraint,   \* set of <<(job, task), (job, pred)>>
  overlap_pairs,               \* list of <<(j1, t1), (j2, t2)>>
  noOverlap,                   \* pairs carrying an (untransformed) disjunction
  oneSlotPerTask,              \* set of (job, task)
  linkStartTime,               \* set of (job, task)
  makespanConstraint,          \* set of (job, task)
  bigm,                        \* linear constraints gdp.bigm put in place
  status,                      \* solver termination condition
  values,                      \* <<assignment>> once loaded, else <<>>
  valuesRead,                  \* whether a .value was read after the solve
  report                       \* what the Results block printed

vars ==
  <<tasks, calendar, num_days, pc, error, Job_Task, valid_slots_by_task, model_vars,
    taskDurationConstraint, taskPredecessorConstraint, overlap_pairs, noOverlap,
    oneSlotPerTask, linkStartTime, makespanConstraint, bigm, status, values,
    valuesRead, report>>

\* ------------------------------------------------------------- data model
\* Job_Task[(job_id, task_id)] = {...}: a dict keeps the position of a key it
\* already holds and appends a new one.
DictSet(d, e) ==
  IF \E i \in 1..Len(d) : d[i].key = e.key
  THEN [i \in 1..Len(d) |-> IF d[i].key = e.key THEN e ELSE d[i]]
  ELSE Append(d, e)

Entry(t) ==
  [key |-> <<t[1], t[2]>>,
   machine |-> t[3],
   duration |-> t[4] * MinutesPerHour,
   predecessor |-> t[5]]

RECURSIVE JobTaskFrom(_, _)
JobTaskFrom(ts, d) ==
  IF ts = <<>> THEN d ELSE JobTaskFrom(Tail(ts), DictSet(d, Entry(Head(ts))))

Keys(d) == [i \in 1..Len(d) |-> d[i].key]
JobToTask == {Job_Task[i].key : i \in 1..Len(Job_Task)}
Data(k) == Job_Task[CHOOSE i \in 1..Len(Job_Task) : Job_Task[i].key = k]
taskMachine(k) == Data(k).machine
taskDuration(k) == Data(k).duration
taskPredecessor(k) == Data(k).predecessor

\* ------------------------------------------------------ calendar expander
\* slip: the fit test written with < instead of <=
Fits_strict(t0, duration, shift_end) == t0 + duration < shift_end

\* if t0 + duration <= shift_end
Fits(t0, duration, shift_end) == t0 + duration <= shift_end

\* inner loop: for h in shift: if h + offset + duration <= shift_end: append
RECURSIVE SlotsOfDay(_, _, _, _)
SlotsOfDay(shift, i, duration, offset) ==
  IF i > Len(shift) THEN <<>>
  ELSE LET t0 == shift[i] + offset
           shift_end == shift[Len(shift)] + offset
       IN (IF Fits(t0, duration, shift_end) THEN <<t0>> ELSE <<>>)
          \o SlotsOfDay(shift, i + 1, duration, offset)

\* outer loop: for day in range(num_days)
RECURSIVE SlotsFrom(_, _, _, _)
SlotsFrom(shift, duration, day, days) ==
  IF day >= days THEN <<>>
  ELSE SlotsOfDay(shift, 1, duration, DayMinutes * day)
       \o SlotsFrom(shift, duration, day + 1, days)

ValidSlots(shift, duration, days) == SlotsFrom(shift, duration, 0, days)

\* calendar[machine] raises KeyError, shift[0] raises IndexError; both sit
\* inside the day loop, so neither is reached when num_days is 0.
SlotError(e) ==
  IF num_days <= 0 THEN None
  ELSE IF e.machine \notin DOMAIN calendar THEN "KeyError"
  ELSE IF calendar[e.machine] = <<>> THEN "IndexError"
  ELSE None

FirstSlotError ==
  IF \E i \in 1..Len(Job_Task) : SlotError(Job_Task[i]) # None
  THEN CHOOSE i \in 1..Len(Job_Task) :
         /\ SlotError(Job_Task[i]) # None
         /\ \A j \in 1..(i - 1) : SlotError(Job_Task[j]) = None
  ELSE Len(Job_Task) + 1

\* Upper bound on makespan (entire horizon in minutes)
UB == DayMinutes * num_days

NoFunction == [k \in {} |-> <<>>]
NoVars == [startTime |-> {}, endTime |-> {}, makespan |-> FALSE, startAtSlot |-> {}]
NoReport == [schedule |-> <<>>, makespan |-> <<>>]
NoBigM == [relaxed |-> {}, xor |-> {}]

\* ------------------------------------------------------------------ inputs
\* Spec draws a task list of up to MaxTasks tasks.  The i-th task carries the
\* i-th identifier of KeyOrder (not in sorted order, so that insertion order
\* and identifier order differ), any machine name, any duration and either no
\* predecessor or the predecessor 'Cutting': alone, ('Job1', 'Milling') then
\* names a task that does not exist, and ('Job1', 'Cutting') names itself.
KeyOrder ==
  <<(<<"Job1", "Milling">>), (<<"Job1", "Cutting">>),
    (<<"Job2", "Cutting">>), (<<"Job2", "Milling">>)>>
PredChoices == {None, "Cutting"}
TaskAttributes == MachineNames \X (0..MaxHrs) \X PredChoices
TaskLists ==
  UNION {{[i \in 1..n |-> <<KeyOrder[i][1], KeyOrder[i][2], f[i][1], f[i][2], f[i][3]>>] :
            f \in [1..n -> TaskAttributes]} : n \in 1..MaxTasks}

\* The two machines keep different windows, as in the script.
CalendarDrawn ==
  [m \in KnownMachines |->
     IF m = "LaserCutter"
     THEN TickRange(DayOpen, DayOpen + MinutesPerHour)
     ELSE TickRange(DayOpen, DayOpen + 2 * MinutesPerHour)]

Unbuilt ==
  /\ pc = "start"
  /\ error = None
  /\ Job_Task = <<>>
  /\ valid_slots_by_task = NoFunction
  /\ model_vars = NoVars
  /\ taskDurationConstraint = {}
  /\ taskPredecessorConstraint = {}
  /\ overlap_pairs = <<>>
  /\ noOverlap = {}
  /\ oneSlotPerTask = {}
  /\ linkStartTime = {}
  /\ makespanConstraint = {}
  /\ bigm = NoBigM
  /\ status = None
  /\ values = <<>>
  /\ valuesRead = FALSE
  /\ report = NoReport

Init ==
  /\ tasks \in TaskLists
  /\ calendar = CalendarDrawn
  /\ num_days \in 1..MaxDays
  /\ Unbuilt

Inputs == <<tasks, calendar, num_days>>
Constraints ==
  <<taskDurationConstraint, taskPredecessorConstraint, overlap_pairs, noOverlap,
    oneSlotPerTask, linkStartTime, makespanConstraint, bigm>>
Outcome == <<status, values, valuesRead, report>>

\* lines 35-41
BuildJobTask ==
  /\ pc = "start"
  /\ Job_Task' = JobTaskFrom(tasks, <<>>)
  /\ pc' = "Job_Task"
  /\ UNCHANGED <<Inputs, error, valid_slots_by_task, model_vars, Constraints, Outcome>>

\* lines 43-57
ExpandValidSlots ==
  /\ pc = "Job_Task"
  /\ LET n == FirstSlotError - 1
         done == {Job_Task[i].key : i \in 1..n}
     IN /\ valid_slots_by_task' =
             [k \in done |-> ValidSlots(calendar[taskMachine(k)], taskDuration(k), num_days)]
        /\ IF n = Len(Job_Task)
           THEN pc' = "valid_slots" /\ error' = None
           ELSE pc' = "failed" /\ error' = SlotError(Job_Task[n + 1])
  /\ UNCHANGED <<Inputs, Job_Task, model_vars, Constraints, Outcome>>

\* ------------------------------------------------------ decision variables
\* start_slot_keys = [(j, t, s) for (j, t), slots in ... for s in slots]
start_slot_keys ==
  UNION {{<<k, s>> : s \in SeqToSet(valid_slots_by_task[k])} :
           k \in DOMAIN valid_slots_by_task}

\* lines 59-102: sets, parameters, startTime, endTime, makespan, startAtSlot
DeclareVariables ==
  /\ pc = "valid_slots"
  /\ model_vars' = [startTime |-> JobToTask,
                    endTime |-> JobToTask,
                    makespan |-> TRUE,
                    startAtSlot |-> start_slot_keys]
  /\ pc' = "variables"
  /\ UNCHANGED <<Inputs, error, Job_Task, valid_slots_by_task, Constraints, Outcome>>

\* ------------------------------------------------------------ constraints
\* An inequality constraint is kept as the expression the rule returns,
\* lhs >= rhs, over indexed variables <<name, index>>.

\* lines 106-108; the rule itself is task_duration_rule below
DeclareTaskDuration ==
  /\ pc = "variables"
  /\ taskDurationConstraint' = JobToTask
  /\ pc' = "taskDuration"
  /\ UNCHANGED <<Inputs, error, Job_Task, valid_slots_by_task, model_vars,
                 taskPredecessorConstraint, overlap_pairs, noOverlap, oneSlotPerTask,
                 linkStartTime, makespanConstraint, bigm, Outcome>>

\* slip: the predecessor's start where its end is meant
precedence_rule_predStart(k) ==
  [lhs |-> <<"startTime", k>>, rhs |-> <<"startTime", <<k[1], taskPredecessor(k)>>>>]

\* m.startTime[j, t] >= m.endTime[j, pred]
precedence_rule(k) ==
  [lhs |-> <<"startTime", k>>, rhs |-> <<"endTime", <<k[1], taskPredecessor(k)>>>>]

\* m.endTime[j, pred] raises KeyError when (j, pred) is no index of endTime
PrecedenceFails(k) ==
  /\ taskPredecessor(k) # None
  /\ <<k[1], taskPredecessor(k)>> \notin model_vars.endTime

\* Constraint(model.JobToTask, rule=...) calls the rule key by key in the
\* set's insertion order; the position of the first key whose rule raises
FirstPrecedenceFailure ==
  IF \E i \in 1..Len(Job_Task) : PrecedenceFails(Job_Task[i].key)
  THEN CHOOSE i \in 1..Len(Job_Task) :
         /\ PrecedenceFails(Job_Task[i].key)
         /\ \A j \in 1..(i - 1) : ~PrecedenceFails(Job_Task[j].key)
  ELSE Len(Job_Task) + 1

\* lines 111-116: the constraints of the keys before the failing one are
\* built when KeyError ends the run; Constraint.Skip builds nothing
DeclarePrecedence ==
  /\ pc = "taskDuration"
  /\ LET n == FirstPrecedenceFailure - 1
         called == {Job_Task[i].key : i \in 1..n}
     IN /\ taskPredecessorConstraint' =
             {precedence_rule(k) : k \in {q \in called : taskPredecessor(q) # None}}
        /\ IF n = Len(Job_Task)
           THEN pc' = "taskPredecessor" /\ error' = None
           ELSE pc' = "failed" /\ error' = "KeyError"
  /\ UNCHANGED <<Inputs, Job_Task, valid_slots_by_task, model_vars,
                 taskDurationConstraint, overlap_pairs, noOverlap, oneSlotPerTask,
                 linkStartTime, makespanConstraint, bigm, Outcome>>

\* slip: != where < is meant, so that both orientations are kept
PairSelected_unordered(k1, k2) == k1 # k2 /\ taskMachine(k1) = taskMachine(k2)

\* if (j1, t1) < (j2, t2) and taskMachine[j1, t1] == taskMachine[j2, t2]
PairSelected(k1, k2) == TupleLess(k1, k2) /\ taskMachine(k1) = taskMachine(k2)

\* the two nested loops over model.JobToTask, in the set's insertion order
RECURSIVE PairsFrom(_, _, _)
PairsFrom(ks, i, j) ==
  IF i > Len(ks) THEN <<>>
  ELSE IF j > Len(ks) THEN PairsFrom(ks, i + 1, 1)
  ELSE (IF PairSelected(ks[i], ks[j]) THEN <<(<<ks[i], ks[j]>>)>> ELSE <<>>)
       \o PairsFrom(ks, i, j + 1)

\* lines 119-123
BuildOverlapPairs ==
  /\ pc = "taskPredecessor"
  /\ overlap_pairs' = PairsFrom(Keys(Job_Task), 1, 1)
  /\ pc' = "overlap_pairs"
  /\ UNCHANGED <<Inputs, error, Job_Task, valid_slots_by_task, model_vars,
                 taskDurationConstraint, taskPredecessorConstraint, noOverlap,
                 oneSlotPerTask, linkStartTime, makespanConstraint, bigm, Outcome>>

\* slip: the first task's start where its end is meant
A_before_B_rule_startOnly(p) ==
  [lhs |-> <<"startTime", p[2]>>, rhs |-> <<"startTime", p[1]>>]

\* model.startTime[j2, t2] >= model.endTime[j1, t1]
A_before_B_rule(p) == [lhs |-> <<"startTime", p[2]>>, rhs |-> <<"endTime", p[1]>>]
\* model.startTime[j1, t1] >= model.endTime[j2, t2]
B_before_A_rule(p) == [lhs |-> <<"startTime", p[1]>>, rhs |-> <<"endTime", p[2]>>]

\* lines 125-135: one two-disjunct disjunction per overlap pair
DeclareNoOverlap ==
  /\ pc = "overlap_pairs"
  /\ noOverlap' = {[pair |-> p, disjuncts |-> <<A_before_B_rule(p), B_before_A_rule(p)>>] :
                     p \in SeqToSet(overlap_pairs)}
  /\ pc' = "noOverlap"
  /\ UNCHANGED <<Inputs, error, Job_Task, valid_slots_by_task, model_vars,
                 taskDurationConstraint, taskPredecessorConstraint, overlap_pairs,
                 oneSlotPerTask, linkStartTime, makespanConstraint, bigm, Outcome>>

\* the startAtSlot variables of task k
SlotVars(k) == {v[2] : v \in {w \in model_vars.startAtSlot : w[1] = k}}

\* sum(...) over no variable is the int 0, and 0 == 1 is the bool False,
\* which Constraint refuses with ValueError
OneSlotFails(k) == SlotVars(k) = {}

\* the position of the first key, in the set's insertion order, whose rule
\* is refused
FirstOneSlotFailure ==
  IF \E i \in 1..Len(Job_Task) : OneSlotFails(Job_Task[i].key)
  THEN CHOOSE i \in 1..Len(Job_Task) :
         /\ OneSlotFails(Job_Task[i].key)
         /\ \A j \in 1..(i - 1) : ~OneSlotFails(Job_Task[j].key)
  ELSE Len(Job_Task) + 1

\* lines 138-142: the constraints of the keys before the failing one are
\* built when ValueError ends the run
DeclareOneSlotPerTask ==
  /\ pc = "noOverlap"
  /\ LET n == FirstOneSlotFailure - 1
     IN /\ oneSlotPerTask' = {Job_Task[i].key : i \in 1..n}
        /\ IF n = Len(Job_Task)
           THEN pc' = "oneSlotPerTask" /\ error' = None
           ELSE pc' = "failed" /\ error' = "ValueError"
  /\ UNCHANGED <<Inputs, Job_Task, valid_slots_by_task, model_vars,
                 taskDurationConstraint, taskPredecessorConstraint, overlap_pairs,
                 noOverlap, linkStartTime, makespanConstraint, bigm, Outcome>>

\* lines 145-151
DeclareLinkStartTime ==
  /\ pc = "oneSlotPerTask"
  /\ linkStartTime' = JobToTask
  /\ pc' = "linkStartTime"
  /\ UNCHANGED <<Inputs, error, Job_Task, valid_slots_by_task, model_vars,
                 taskDurationConstraint, taskPredecessorConstraint, overlap_pairs,
                 noOverlap, oneSlotPerTask, makespanConstraint, bigm, Outcome>>

\* lines 154-159: makespan constraints and the objective minimize(makespan)
DeclareMakespan ==
  /\ pc = "linkStartTime"
  /\ makespanConstraint' = JobToTask
  /\ pc' = "makespan"
  /\ UNCHANGED <<Inputs, error, Job_Task, valid_slots_by_task, model_vars,
                 taskDurationConstraint, taskPredecessorConstraint, overlap_pairs,
                 noOverlap, oneSlotPerTask, linkStartTime, bigm, Outcome>>

\* ------------------------------------------------------ big-M transformation
\* bounds=(0, UB) on every startTime and endTime variable
VarLB(term) == 0
VarUB(term) == UB

\* slip: M taken as one day instead of the whole horizon
BigMValue_oneDay(c) == DayMinutes

\* gdp.bigm estimates M for lhs - rhs >= 0 from the variable bounds: the
\* least value lhs - rhs can take is VarLB(lhs) - VarUB(rhs) = -M.
BigMValue(c) == VarUB(c.rhs) - VarLB(c.lhs)

\* the relaxed constraints lhs >= rhs - M * (1 - indicator) of one disjunction
Relax(d) ==
  {[pair |-> d.pair, which |-> i, lhs |-> d.disjuncts[i].lhs,
    rhs |-> d.disjuncts[i].rhs, M |-> BigMValue(d.disjuncts[i])] : i \in 1..2}

\* line 162: every disjunction becomes its relaxed constraints and the
\* exactly-one constraint on the two disjunct indicators
ApplyBigM ==
  /\ pc = "makespan"
  /\ bigm' = [relaxed |-> UNION {Relax(d) : d \in noOverlap},
              xor |-> {d.pair : d \in noOverlap}]
  /\ pc' = "compiled"
  /\ UNCHANGED <<Inputs, error, Job_Task, valid_slots_by_task, model_vars,
                 taskDurationConstraint, taskPredecessorConstraint, overlap_pairs,
                 noOverlap, oneSlotPerTask, linkStartTime, makespanConstraint, Outcome>>

\* ------------------------------------------------- the compiled system
\* An assignment gives startTime and endTime a value per task, startAtSlot
\* the set of slots whose binary is 1, ind the two disjunct indicators of
\* every pair, and makespan a value.  Continuous values are taken on the
\* hour grid of [0, UB], on which all data of the script lie.
Grid == {MinutesPerHour * i : i \in 0..(UB \div MinutesPerHour)}

RECURSIVE SetSum(_)
SetSum(S) == IF S = {} THEN 0 ELSE LET x == CHOOSE y \in S : TRUE IN x + SetSum(S \ {x})

\* m.endTime[j, t] == m.startTime[j, t] + m.taskDuration[j, t]
task_duration_rule(st, et, duration) == et = st + duration

\* slip: <= 1 where == 1 is meant
one_start_slot_rule_atMost(x) == Cardinality(x) <= 1

\* sum(m.startAtSlot[j, t, s] for ...) == 1, on the set x of slots chosen
one_start_slot_rule(x) == Cardinality(x) = 1

\* m.startTime[j, t] == sum(s * m.startAtSlot[j, t, s] for ...)
link_start_time_rule(st, x) == st = SetSum(x)

\* slip: the task's start where its end is meant
makespan_rule_start(mk, st, et) == mk >= st

\* m.makespan >= m.endTime[j, t]
makespan_rule(mk, st, et) == mk >= et

Val(a, term) == a[term[1]][term[2]]
Holds(a, c) == Val(a, c.lhs) >= Val(a, c.rhs)
RelaxedHolds(a, y, r) == Val(a, r.lhs) >= Val(a, r.rhs) - r.M * (1 - y[r.pair][r.which])

\* <<x, st, et>> for task k meeting the constraints that mention only k
TaskTriples(k) ==
  UNION {UNION {{<<x, st, et>> :
                   et \in {g \in Grid : k \in taskDurationConstraint
                                          => task_duration_rule(st, g, taskDuration(k))}} :
                st \in {g \in Grid : k \in linkStartTime => link_start_time_rule(g, x)}} :
         x \in {z \in SUBSET SlotVars(k) : k \in oneSlotPerTask => one_start_slot_rule(z)}}

\* one triple per task, for every way of choosing them
RECURSIVE Choices(_, _)
Choices(K, cand) ==
  IF K = {} THEN {NoFunction}
  ELSE LET k == CHOOSE x \in K : TRUE
       IN {[x \in DOMAIN g \cup {k} |-> IF x = k THEN t ELSE g[x]] :
             g \in Choices(K \ {k}, cand), t \in cand[k]}

Schedule(f) ==
  [startTime |-> [k \in JobToTask |-> f[k][2]],
   endTime |-> [k \in JobToTask |-> f[k][3]],
   startAtSlot |-> [k \in JobToTask |-> f[k][1]]]

Pairs == {r.pair : r \in bigm.relaxed} \cup bigm.xor

\* values of the disjunct indicators that go with the times of b
Indicators(b) ==
  {y \in [Pairs -> {0, 1} \X {0, 1}] :
     /\ \A p \in bigm.xor : y[p][1] + y[p][2] = 1
     /\ \A r \in bigm.relaxed : RelaxedHolds(b, y, r)}

\* values of makespan that go with the times of b
Makespans(b) ==
  {m \in Grid : \A k \in makespanConstraint : makespan_rule(m, b.startTime[k], b.endTime[k])}

\* The startTime, endTime and startAtSlot parts of the assignments that
\* satisfy the compiled system: some indicator values and some makespan
\* complete them.
FeasibleSchedules ==
  {b \in {Schedule(f) : f \in Choices(JobToTask, [k \in JobToTask |-> TaskTriples(k)])} :
     /\ \A c \in taskPredecessorConstraint : Holds(b, c)
     /\ Indicators(b) # {}
     /\ Makespans(b) # {}}

LeastMakespan(b) == CHOOSE m \in Makespans(b) : \A n \in Makespans(b) : m <= n

\* minimize(makespan): the satisfying assignments whose makespan is the least
\* that any satisfying assignment has
Optimal(S) ==
  LET least == CHOOSE m \in {LeastMakespan(b) : b \in S} :
                 \A b \in S : m <= LeastMakespan(b)
  IN UNION {{[startTime |-> b.startTime, endTime |-> b.endTime,
              startAtSlot |-> b.startAtSlot, ind |-> y, makespan |-> least] :
               y \in Indicators(b)} : b \in {c \in S : LeastMakespan(c) = least}}

\* lines 163-164: glpk ends with an optimal assignment, loaded into the
\* variables, or finds the system infeasible and loads nothing
Solve ==
  /\ pc = "compiled"
  /\ LET S == FeasibleSchedules
     IN IF S = {}
        THEN status' = "infeasible" /\ values' = <<>>
        ELSE status' = "optimal" /\ \E a \in Optimal(S) : values' = <<a>>
  /\ pc' = "solved"
  /\ UNCHANGED <<Inputs, error, Job_Task, valid_slots_by_task, model_vars, Constraints,
                 valuesRead, report>>

\* sorted(model.JobToTask)
SortedKeys ==
  [i \in 1..Cardinality(JobToTask) |->
     CHOOSE k \in JobToTask : Cardinality({q \in JobToTask : TupleLess(q, k)}) = i - 1]

\* lines 167-176: no status is looked at; .value is read at once, and the
\* :.1f format of the None an unloaded variable holds raises TypeError
Results ==
  /\ pc = "solved"
  /\ valuesRead' = TRUE
  /\ IF values = <<>>
     THEN /\ pc' = "failed"
          /\ error' = "TypeError"
          /\ UNCHANGED report
     ELSE /\ pc' = "reported"
          /\ error' = None
          /\ report' =
               [schedule |-> [i \in 1..Len(SortedKeys) |->
                                LET k == SortedKeys[i]
                                IN <<k[1], k[2], taskMachine(k),
                                     values[1].startTime[k], values[1].endTime[k]>>],
                makespan |-> <<values[1].makespan>>]
  /\ UNCHANGED <<Inputs, Job_Task, valid_slots_by_task, model_vars, Constraints,
                 status, values>>

Next ==
  \/ BuildJobTask
  \/ ExpandValidSlots
  \/ DeclareVariables
  \/ DeclareTaskDuration
  \/ DeclarePrecedence
  \/ BuildOverlapPairs
  \/ DeclareNoOverlap
  \/ DeclareOneSlotPerTask
  \/ DeclareLinkStartTime
  \/ DeclareMakespan
  \/ ApplyBigM
  \/ Solve
  \/ Results

Spec == Init /\ [][Next]_vars

\* ------------------------------------------- the calendar expander alone
\* One task on one machine; the machine's ticks are any strictly increasing
\* list over the hours after opening, the empty list included.
CalendarTicks == {DayOpen + MinutesPerHour * i : i \in 0..(MaxWindowHrs + 2)}

RECURSIVE Ascending(_)
Ascending(S) ==
  IF S = {} THEN <<>>
  ELSE LET lo == CHOOSE x \in S : \A y \in S : x <= y IN <<lo>> \o Ascending(S \ {lo})

InitCalendar ==
  /\ \E h \in 0..(MaxHrs + 1) : tasks = <<(<<"Job1", "Cutting", "LaserCutter", h, None>>)>>
  /\ \E S \in SUBSET CalendarTicks : calendar = [m \in {"LaserCutter"} |-> Ascending(S)]
  /\ num_days \in 0..(MaxDays + 1)
  /\ Unbuilt

NextCalendar == BuildJobTask \/ ExpandValidSlots

SpecCalendar == InitCalendar /\ [][NextCalendar]_vars

\* ------------------------------------------------ the pair enumeration alone
\* Up to MaxTasks + 1 one-hour tasks without predecessor on known machines.
PairTuples == JobIds \X TaskIds \X KnownMachines \X {1} \X {None}

InitPairs ==
  /\ tasks \in UNION {[1..n -> PairTuples] : n \in 1..(MaxTasks + 1)}
  /\ calendar = [m \in KnownMachines |-> TickRange(DayOpen, DayOpen + MinutesPerHour)]
  /\ num_days = 1
  /\ Unbuilt

NextPairs ==
  \/ BuildJobTask
  \/ ExpandValidSlots
  \/ DeclareVariables
  \/ DeclareTaskDuration
  \/ DeclarePrecedence
  \/ BuildOverlapPairs

SpecPairs == InitPairs /\ [][NextPairs]_vars

\* ================================================================ claims
SameMachinePairs ==
  {q \in JobToTask \X JobToTask : q[1] # q[2] /\ taskMachine(q[1]) = taskMachine(q[2])}

Overlap(a, k1, k2) ==
  a.startTime[k1] < a.endTime[k2] /\ a.startTime[k2] < a.endTime[k1]

\* C1: in every assignment satisfying the compiled system (each is some member
\* of FeasibleSchedules completed by indicators and a makespan), two distinct
\* tasks of one machine are ordered (end of one <= start of the other), and
\* two such tasks of nonzero duration neither overlap nor start together.
C1_NoOverlap ==
  pc = "compiled" =>
    \A a \in FeasibleSchedules : \A q \in SameMachinePairs :
      /\ \/ a.endTime[q[1]] <= a.startTime[q[2]]
         \/ a.endTime[q[2]] <= a.startTime[q[1]]
      /\ (taskDuration(q[1]) > 0 /\ taskDuration(q[2]) > 0) =>
           /\ ~Overlap(a, q[1], q[2])
           /\ a.startTime[q[1]] # a.startTime[q[2]]

C1_Witness ==
  /\ pc = "compiled"
  /\ FeasibleSchedules # {}
  /\ \E q \in SameMachinePairs : taskDuration(q[1]) > 0 /\ taskDuration(q[2]) > 0

\* C2: in every assignment satisfying the compiled system, every task has
\* exactly one slot indicator at 1 and starts at that slot's offset, which is
\* a member of its valid-slot list.
C2_StartOnSlot ==
  pc = "compiled" =>
    \A a \in FeasibleSchedules : \A k \in JobToTask :
      /\ Cardinality(a.startAtSlot[k]) = 1
      /\ a.startAtSlot[k] = {a.startTime[k]}
      /\ a.startTime[k] \in SeqToSet(valid_slots_by_task[k])

C2_Witness ==
  /\ pc = "compiled"
  /\ \E a \in FeasibleSchedules : \E k \in JobToTask :
       /\ Len(valid_slots_by_task[k]) >= 2
       /\ a.startTime[k] = valid_slots_by_task[k][2]

HasPredecessor == {k \in JobToTask : taskPredecessor(k) # None}

\* C3: the compiled system holds, for each task with a predecessor and for
\* no other task, the constraint start >= end of the predecessor in the same
\* job; every satisfying assignment starts the task no earlier than that end.
C3_Precedence ==
  pc = "compiled" =>
    /\ taskPredecessorConstraint =
         {[lhs |-> <<"startTime", k>>,
           rhs |-> <<"endTime", <<k[1], taskPredecessor(k)>>>>] : k \in HasPredecessor}
    /\ \A a \in FeasibleSchedules : \A k \in HasPredecessor :
         a.startTime[k] >= a.endTime[<<k[1], taskPredecessor(k)>>]

C3_Witness ==
  /\ pc = "compiled"
  /\ FeasibleSchedules # {}
  /\ \E k \in HasPredecessor : taskDuration(<<k[1], taskPredecessor(k)>>) > 0
  /\ HasPredecessor # JobToTask

\* the set the calendar expander is to produce
ExpectedSlots(w, d, D) ==
  {w[i] + DayMinutes * day : i \in {j \in 1..Len(w) : w[j] + d <= w[Len(w)]},
                             day \in 0..(D - 1)}

DayOf(v) == v \div DayMinutes
TickOf(v) == v % DayMinutes

\* C4: the valid-slot list of a task of duration d on a machine with ticks
\* w[0..k] over D days holds exactly the offsets w[i] + 1440*day with
\* w[i] + d <= w[k], ascending by day and then by tick, none of them twice.
C4_ValidSlots ==
  \A k \in DOMAIN valid_slots_by_task :
    LET sl == valid_slots_by_task[k]
        w == calendar[taskMachine(k)]
    IN /\ SeqToSet(sl) = ExpectedSlots(w, taskDuration(k), num_days)
       /\ \A i, j \in 1..Len(sl) :
            i < j => \/ DayOf(sl[i]) < DayOf(sl[j])
                     \/ DayOf(sl[i]) = DayOf(sl[j]) /\ TickOf(sl[i]) < TickOf(sl[j])
       /\ Len(sl) = Cardinality(SeqToSet(sl))

C4_Witness ==
  /\ pc = "valid_slots"
  /\ num_days >= 2
  /\ \E k \in DOMAIN valid_slots_by_task :
       /\ Len(valid_slots_by_task[k]) >= 4
       /\ Len(valid_slots_by_task[k]) < num_days * Len(calendar[taskMachine(k)])
       /\ taskDuration(k) > 0

MaxEnd(rows) == CHOOSE e \in {rows[i][5] : i \in 1..Len(rows)} :
                  \A i \in 1..Len(rows) : rows[i][5] <= e

\* C5: the makespan reported for a solved schedule is the largest end time
\* of the schedule reported with it.
C5_Makespan ==
  pc = "reported" =>
    /\ Len(report.schedule) = Cardinality(JobToTask)
    /\ report.makespan = <<MaxEnd(report.schedule)>>

C5_Witness ==
  /\ pc = "reported"
  /\ Len(report.schedule) = 2
  /\ report.schedule[1][5] < report.schedule[2][5]
  /\ report.schedule[1][4] > 0

EmptySlotTask == \E k \in DOMAIN valid_slots_by_task : valid_slots_by_task[k] = <<>>

NothingCompiled ==
  /\ model_vars = NoVars
  /\ taskDurationConstraint = {}
  /\ taskPredecessorConstraint = {}
  /\ noOverlap = {}
  /\ oneSlotPerTask = {}
  /\ linkStartTime = {}
  /\ makespanConstraint = {}
  /\ bigm = NoBigM

\* C6: once a task has an empty valid-slot list, no variable and no
\* constraint is ever created and the solver is never called.
C6_FailFastOnEmptySlots ==
  EmptySlotTask => NothingCompiled /\ status = None

\* C7: after a solve that ended other than optimal or feasible, no variable
\* value is read and nothing is reported.
C7_NoReadAfterFailedSolve ==
  status \notin {None, "optimal", "feasible"} => ~valuesRead /\ report = NoReport

MalformedReference ==
  \E i \in 1..Len(Job_Task) :
    \/ Job_Task[i].machine \notin KnownMachines
    \/ /\ Job_Task[i].predecessor # None
       /\ <<Job_Task[i].key[1], Job_Task[i].predecessor>> \notin JobToTask

\* C8: a task list with an unknown machine id or an unknown predecessor id
\* never gets as far as expanding valid slots or creating variables or
\* constraints.
C8_FailAtDataModel ==
  MalformedReference => valid_slots_by_task = NoFunction /\ NothingCompiled

Samples == {(UB \div SampleParts) * i : i \in 0..SampleParts}

\* start/end values s1, e1 of the first and s2, e2 of the second task of p
TimesOn(p, s1, e1, s2, e2) ==
  [startTime |-> [k \in {p[1], p[2]} |-> IF k = p[1] THEN s1 ELSE s2],
   endTime |-> [k \in {p[1], p[2]} |-> IF k = p[1] THEN e1 ELSE e2]]

\* C9: every big-M constant is the horizon length, and for all start/end
\* values within [0, horizon] some indicator choice satisfies both relaxed
\* inequalities exactly when one of the two orderings holds; with the first
\* indicator at 1 the first inequality is the first ordering and the second
\* is slack, and the reverse with the second indicator at 1.
C9_BigMEquivalence ==
  pc = "compiled" =>
    /\ \A r \in bigm.relaxed : r.M = DayMinutes * num_days
    /\ \A p \in bigm.xor :
         LET rA == {r \in bigm.relaxed : r.pair = p /\ r.which = 1}
             rB == {r \in bigm.relaxed : r.pair = p /\ r.which = 2}
             first == [x \in {p} |-> <<1, 0>>]
             second == [x \in {p} |-> <<0, 1>>]
         IN /\ Cardinality(rA) = 1
            /\ Cardinality(rB) = 1
            /\ \A r1 \in rA, r2 \in rB : \A s1, e1, s2, e2 \in Samples :
                 LET a == TimesOn(p, s1, e1, s2, e2)
                 IN /\ (\E y \in {first, second} :
                          RelaxedHolds(a, y, r1) /\ RelaxedHolds(a, y, r2))
                         <=> (s2 >= e1 \/ s1 >= e2)
                    /\ RelaxedHolds(a, first, r1) <=> s2 >= e1
                    /\ RelaxedHolds(a, first, r2)
                    /\ RelaxedHolds(a, second, r2) <=> s1 >= e2
                    /\ RelaxedHolds(a, second, r1)

C9_Witness ==
  /\ pc = "compiled"
  /\ bigm.xor # {}
  /\ num_days >= 2

\* C10: the overlap-pair list holds each unordered pair of distinct tasks of
\* one machine once, smaller (job, task) identifier first, and nothing else:
\* no self-pair, no pair twice or in both orientations, no pair across
\* machines.
C10_OverlapPairs ==
  pc = "overlap_pairs" =>
    /\ \A q \in SameMachinePairs :
         Cardinality({i \in 1..Len(overlap_pairs) :
                        {overlap_pairs[i][1], overlap_pairs[i][2]} = {q[1], q[2]}}) = 1
    /\ \A i \in 1..Len(overlap_pairs) :
         LET p == overlap_pairs[i]
         IN /\ p[1] \in JobToTask /\ p[2] \in JobToTask
            /\ p[1] # p[2]
            /\ taskMachine(p[1]) = taskMachine(p[2])
            /\ \/ StrRank[p[1][1]] < StrRank[p[2][1]]
               \/ p[1][1] = p[2][1] /\ StrRank[p[1][2]] < StrRank[p[2][2]]

\* three tasks, inserted in descending identifier order, two of them on one
\* machine and the third on another
C10_Witness ==
  /\ pc = "overlap_pairs"
  /\ Len(Job_Task) = 3
  /\ Len(overlap_pairs) = 1
  /\ TupleLess(Job_Task[3].key, Job_Task[2].key)
  /\ TupleLess(Job_Task[2].key, Job_Task[1].key)
====
